---- MODULE Spec2Model ----
(***************************************************************************)
(* Model of the video-to-audio conversion service: the POST /jobs ingress  *)
(* handler (app/api/routes.py), the job records kept in Redis              *)
(* (app/services/redis_client.py), the convert_video Celery task and       *)
(* finish_job (app/worker/tasks.py), the outbound upload and webhook with  *)
(* their retry loop (app/services/uploader.py, app/utils/retry.py) and the *)
(* job directories (app/services/storage.py).                              *)
(*                                                                         *)
(* A step of the model is the code between two awaits (or two blocking     *)
(* calls) of one handler or one task execution.                            *)
(***************************************************************************)
EXTENDS Integers, Sequences, FiniteSets, TLC

----------------------------------------------------------------------------
(* Bounds of the model *)

\* number of POST /jobs submissions that arrive
NumReqs == 2
\* number of distinct job ids the submissions draw from
NumJobIds == 2
\* Spec: how many failures the environment causes in all (a worker child lost
\* or out of time, ffprobe or ffmpeg failing, an HTTP attempt failing)
MaxFailures == 1
\* SpecOne: the same, enough to exhaust the task's retries and either retry loop
OneFailures == 5
\* SpecOps: the same, restarts of the API process included
OpsFailures == 2
\* SpecRetry: the bits of a float's significand (53 in the program)
MantissaBits == 3
\* SpecRetry: the largest max_retries a call of retry_with_backoff is given
MaxRetriesArg == 5

Reqs == 1..NumReqs
JobIds == 1..NumJobIds

(* Program constants *)

\* tasks.py: @celery_app.task(max_retries=3)
max_retries == 3
\* config.py: UPLOAD_MAX_RETRIES
UPLOAD_MAX_RETRIES == 3
\* config.py: WEBHOOK_MAX_RETRIES
WEBHOOK_MAX_RETRIES == 5
\* redis_client.py: client.expire(job_key, 604800)
TERMINAL_TTL == 604800

----------------------------------------------------------------------------
VARIABLES
    now,    \* datetime.utcnow(): the clock, later at each call of create_job
    store,  \* Redis: job id -> the hash job:<id>, or NoRec when the key is absent
    ttl,    \* Redis: job id -> the expiry set on the key job:<id> (0: none)
    fs,     \* TEMP_DIR: job id -> [exists, files] of the directory TEMP_DIR/<id>
    req,    \* the POST /jobs submissions: position in create_job_endpoint, inputs, response
    task,   \* the convert_video messages <<request, retries>>: in the broker or
            \* the position of the execution that runs one
    budget, \* the number of failures the environment may still cause
    reaper, \* cleanup_orphaned_files: the directory it is about to remove, or NoJobId
    call    \* a call of a function on its own: its arguments and what it has done so far

vars == <<now, store, ttl, fs, req, task, budget, reaper, call>>

\* what a step of a submission or of convert_video leaves alone
aux == <<reaper, call>>

\* no function is being called on its own
NoCall == [fn |-> "none"]

----------------------------------------------------------------------------
(* Values *)

\* hgetall of an absent key returns {} and get_job turns that into None
NoRec == [status |-> "absent", created_at |-> <<>>, started_at |-> <<>>,
          completed_at |-> <<>>, error |-> "", input_path |-> <<>>]

\* a file name: the part before the last dot and the suffix
FileName(stem, ext) == <<stem, ext>>

\* the uploaded files' names (UploadFile.filename)
Filenames == {FileName("talk", ".mp4")}

\* os.path.splitext(file.filename)[1]
Ext(f) == f[2]

\* job_dir / f"input{ext}"
InputName(f) == FileName("input", Ext(f))

\* Path(original_filename).with_suffix(".mp3").name
DerivedName(f) == FileName(f[1], ".mp3")

OutputMp3 == FileName("output", ".mp3")
FfmpegLog == FileName("ffmpeg", ".log")

\* job_dir.glob("input.*")
GlobInput(files) == {f \in files : f[1] = "input" /\ f[2] # ""}

\* datetime.utcnow().isoformat() + "Z"
IsoZ(t) == <<t, "Z">>

\* datetime.fromisoformat(s.replace("Z", ""))
ParseDt(s) == s[1]

\* a job directory: aged says that now - st_mtime exceeds TEMP_FILE_TTL_SECONDS
NoDir == [exists |-> FALSE, files |-> {}, aged |-> FALSE]

\* the error texts convert_video hands to finish_job
MsgInputNotFound == "Input file not found."
MsgNoAudio == "No audio track found"
MsgFfmpegRetries == "FFmpeg failed after retries"
MsgTimeout == "Task timeout (SoftTimeLimitExceeded)"
MsgUnexpected == "Unexpected error"


----------------------------------------------------------------------------
(* The job records: app/services/redis_client.py *)

\* get_job: "return data if data else None"
Exists(rec) == rec.status # "absent"

\* the mapping create_job writes
NewJobData(input_path, t) ==
    [status |-> "queued", created_at |-> IsoZ(t), started_at |-> <<>>,
     completed_at |-> <<>>, error |-> "", input_path |-> input_path]

\* create_job: client.hset(job_key, mapping=data) writes all six fields,
\* whether or not the key exists
create_job(rec, input_path, t) == NewJobData(input_path, t)

\* what create_job returns: HSET's count of the fields it added
create_job_result(rec) == IF Exists(rec) THEN 0 ELSE 6

\* a variant that treats only completed as terminal
IsTerminalUpdate_CompletedOnly(status) == status = "completed"

\* update_job_status: "if status in ("completed", "failed")"
IsTerminalUpdate(status) == status \in {"completed", "failed"}

\* update_job_status: the mapping it builds, applied by client.hset; an
\* error of None or "" is not written
update_job_status(rec, status, error, t) ==
    [rec EXCEPT
        !.status = status,
        !.started_at = IF status = "processing" /\ rec.started_at = <<>>
                       THEN IsoZ(t) ELSE @,
        !.completed_at = IF IsTerminalUpdate(status) THEN IsoZ(t) ELSE @,
        !.error = IF IsTerminalUpdate(status) /\ error # "" THEN error ELSE @]

\* update_job_status: client.expire(job_key, 604800); EXPIRE on an absent
\* key sets nothing
expire(rec, old, status) ==
    IF IsTerminalUpdate(status) /\ Exists(rec) THEN TERMINAL_TTL ELSE old

----------------------------------------------------------------------------
(* The job directories: app/services/storage.py *)

\* create_job_dir, then open(input_path, "wb")
create_job_dir(d, input) ==
    [exists |-> TRUE, files |-> d.files \cup {input}, aged |-> FALSE]

\* cleanup_job_dir: shutil.rmtree(job_dir) when it exists
cleanup_job_dir(d) == NoDir

----------------------------------------------------------------------------
(* URL safety: is_safe_url in app/utils/security.py *)

\* config.py: the defaults of ALLOW_PRIVATE_IPS and ALLOW_HTTP_CALLBACKS
ALLOW_PRIVATE_IPS == FALSE
ALLOW_HTTP_CALLBACKS == FALSE

\* the kinds of address a host name or an IP literal stands for
AddrClasses == {"public", "private", "loopback", "link_local"}

\* a variant that lets link-local addresses through
Blocked_NoLinkLocal == {"private", "loopback"}

\* "if ip.is_private or ip.is_loopback or ip.is_link_local"
Blocked == {"private", "loopback", "link_local"}

\* what the resolver answers for a host name: an address, or socket.gaierror
DnsAnswers == AddrClasses \cup {"gaierror"}

\* a URL as urlparse sees it: parses is FALSE when urlparse raises ValueError;
\* hostname is "" (none), "ip" (an IP literal of class ip) or "name"
MkUrl(parses, scheme, hostname, ip) ==
    [parses |-> parses, scheme |-> scheme, hostname |-> hostname, ip |-> ip]

Schemes == {"https", "http", "ftp", ""}

Urls ==
    {MkUrl(p, sc, "", "") : p \in BOOLEAN, sc \in Schemes}
        \cup {MkUrl(TRUE, sc, "name", "") : sc \in Schemes}
        \cup {MkUrl(TRUE, sc, "ip", c) : sc \in Schemes, c \in AddrClasses}

\* the output and callback URLs that submissions carry: of a named host, of
\* a public address, and of a private address
TaskUrls ==
    {MkUrl(TRUE, "https", "name", ""), MkUrl(TRUE, "https", "ip", "public"),
     MkUrl(TRUE, "https", "ip", "private")}

\* socket.gethostbyname(hostname): an IP literal resolves to itself, a name
\* to what the resolver answers at the time of the call
gethostbyname(url, dns) == IF url.hostname = "ip" THEN url.ip ELSE dns

\* is_safe_url(url), the settings and the resolver's answer being arguments
is_safe_url(url, dns, allow_private_ips, allow_http_callbacks) ==
    IF allow_private_ips THEN TRUE
    ELSE IF ~url.parses THEN FALSE                    \* except Exception
    ELSE IF url.scheme \notin {"http", "https"} THEN FALSE
    ELSE IF ~allow_http_callbacks /\ url.scheme = "http" THEN FALSE
    ELSE IF url.hostname = "" THEN FALSE
    ELSE IF gethostbyname(url, dns) = "gaierror" THEN FALSE   \* except Exception
    ELSE gethostbyname(url, dns) \notin Blocked

----------------------------------------------------------------------------
(* POST /jobs: create_job_endpoint in app/api/routes.py *)

NoJobId == 0
NoResp == [code |-> 0, status |-> "", created_at |-> 0 - 1]

NewReq == [pc |-> "new", job_id |-> NoJobId, filename |-> FileName("", ""),
           cb |-> FALSE, resp |-> NoResp]

\* submissions of job id j that are between their lookup and their response
InFlight(j) == {r \in Reqs : req[r].job_id = j /\ req[r].pc \in {"open", "stream", "create", "enqueue"}}

\* uuid.uuid4(): an id that no record, directory or submission uses
FreshIds == {j \in JobIds : ~Exists(store[j]) /\ ~fs[j].exists /\ \A r \in Reqs : req[r].job_id # j}

\* the id the handler works with: "if not job_id: job_id = str(uuid.uuid4())"
JobIdFor(supplied, fresh) == IF supplied = NoJobId THEN fresh ELSE supplied

\* "existing_job = await redis_client.get_job(job_id); if existing_job:"
AlreadyExists(rec) == Exists(rec)

\* a variant that answers like a fresh submission, with status queued
ExistingResponse_AlwaysQueued(rec) ==
    [code |-> 202, status |-> "queued", created_at |-> ParseDt(rec.created_at)]

\* the response of the idempotent return
ExistingResponse(rec) ==
    [code |-> 202, status |-> rec.status, created_at |-> ParseDt(rec.created_at)]

\* steps 1 and 2: the disk space check, the job id, the lookup of the record
PostStart(r) ==
    /\ req[r].pc = "new"
    /\ \E supplied \in JobIds \cup {NoJobId}, fresh \in JobIds, f \in Filenames,
          cb \in BOOLEAN, disk_ok \in BOOLEAN :
        LET j == JobIdFor(supplied, fresh) IN
        /\ supplied = NoJobId => fresh \in FreshIds
        /\ supplied # NoJobId => fresh = supplied
        /\ req' = [req EXCEPT ![r] =
                IF ~disk_ok
                THEN [@ EXCEPT !.pc = "done", !.job_id = j,
                               !.resp = [NoResp EXCEPT !.code = 503]]
                ELSE IF AlreadyExists(store[j])
                THEN [@ EXCEPT !.pc = "done", !.job_id = j,
                               !.resp = ExistingResponse(store[j])]
                ELSE [@ EXCEPT !.pc = "open", !.job_id = j, !.filename = f, !.cb = cb]]
    /\ UNCHANGED <<aux, now, store, ttl, fs, task, budget>>

\* step 3: create the job directory and open input<ext> for writing
PostOpen(r) ==
    /\ req[r].pc = "open"
    /\ fs' = [fs EXCEPT ![req[r].job_id] = create_job_dir(@, InputName(req[r].filename))]
    /\ req' = [req EXCEPT ![r].pc = "stream"]
    /\ UNCHANGED <<aux, now, store, ttl, task, budget>>

\* step 4: stream the upload to disk; over the size limit: purge and 413;
\* any other exception: purge and 500
PostStream(r) ==
    /\ req[r].pc = "stream"
    /\ \E outcome \in {"ok", "too_large", "error"} :
        IF outcome = "ok"
        THEN /\ req' = [req EXCEPT ![r].pc = "create"]
             /\ fs' = fs
        ELSE /\ fs' = [fs EXCEPT ![req[r].job_id] = cleanup_job_dir(@)]
             /\ req' = [req EXCEPT ![r].pc = "done",
                            ![r].resp = [NoResp EXCEPT !.code =
                                 IF outcome = "too_large" THEN 413 ELSE 500]]
    /\ UNCHANGED <<aux, now, store, ttl, task, budget>>

\* step 5: await redis_client.create_job(job_id, str(input_path)); an error
\* of the Redis client leaves the handler as it is raised: 500
PostCreate(r) ==
    /\ req[r].pc = "create"
    /\ \E outcome \in {"ok", "error"} :
        IF outcome = "ok"
        THEN /\ store' = [store EXCEPT ![req[r].job_id] =
                    create_job(@, <<req[r].job_id, InputName(req[r].filename)>>, now)]
             /\ now' = now + 1
             /\ req' = [req EXCEPT ![r].pc = "enqueue"]
             /\ budget' = budget
        ELSE /\ budget > 0
             /\ budget' = budget - 1
             /\ req' = [req EXCEPT ![r].pc = "done",
                            ![r].resp = [NoResp EXCEPT !.code = 500]]
             /\ UNCHANGED <<now, store>>
    /\ UNCHANGED <<aux, ttl, fs, task>>

\* the convert_video messages: the submission that sent it and request.retries
Msgs == Reqs \X (0..max_retries)

\* pc: the position in convert_video; attempt: retry_with_backoff's loop
\* variable; fstatus, ferror: the arguments of the finish_job that runs;
\* soft: the soft time limit has fired; wh: the last log event of fire_webhook;
\* host: the kind of hostname of the URL that passed is_safe_url; ran: ffmpeg
\* was started; puts: the calls of client.put made
NoTask == [pc |-> "none", attempt |-> 0, fstatus |-> "", ferror |-> "",
           soft |-> FALSE, wh |-> "", host |-> "", ran |-> FALSE, puts |-> 0]
QueuedTask == [NoTask EXCEPT !.pc = "queued"]

\* step 6: convert_video.delay(...) and the 202 response; an error of the
\* broker connection leaves the handler as it is raised: 500
PostEnqueue(r) ==
    /\ req[r].pc = "enqueue"
    /\ \E outcome \in {"ok", "error"} :
        IF outcome = "ok"
        THEN /\ task' = [task EXCEPT ![<<r, 0>>] = QueuedTask]
             /\ req' = [req EXCEPT ![r].pc = "done",
                    ![r].resp = [code |-> 202, status |-> "queued", created_at |-> now]]
             /\ budget' = budget
        ELSE /\ budget > 0
             /\ budget' = budget - 1
             /\ req' = [req EXCEPT ![r].pc = "done",
                            ![r].resp = [NoResp EXCEPT !.code = 500]]
             /\ task' = task
    /\ UNCHANGED <<aux, now, store, ttl, fs>>

----------------------------------------------------------------------------
(* The retry loop: retry_with_backoff in app/utils/retry.py *)

\* a variant that treats every exception as retryable
retry_with_backoff_CatchesAll(attempt, max, outcome) ==
    IF attempt >= max THEN "return_none"
    ELSE IF outcome = "ok" THEN "return"
    ELSE IF attempt = max - 1 THEN "raise"
    ELSE "sleep"

\* a variant whose test of the last attempt is off by one: the loop runs out
\* and the function returns None
retry_with_backoff_NeverRaises(attempt, max, outcome) ==
    IF attempt >= max THEN "return_none"
    ELSE IF outcome = "ok" THEN "return"
    ELSE IF outcome = "other" THEN "raise"
    ELSE "sleep"

\* one pass of "for attempt in range(max_retries)": what the loop does when
\* the call of func() ends with outcome ("ok", "retryable": an exception of
\* the exceptions tuple, "other": any other exception)
retry_with_backoff(attempt, max, outcome) ==
    IF attempt >= max THEN "return_none"          \* the range is exhausted
    ELSE IF outcome = "ok" THEN "return"
    ELSE IF outcome = "other" THEN "raise"
    ELSE IF attempt = max - 1 THEN "raise"        \* max_retries_reached
    ELSE "sleep"

\* 2 ** n
Pow2(n) == 2 ^ n

\* int.bit_length()
RECURSIVE BitLen(_)
BitLen(x) == IF x = 0 THEN 0 ELSE 1 + BitLen(x \div 2)

\* Floats are counted in units of 2 ** -MantissaBits. x, a number of units,
\* rounded to the nearest float (MantissaBits significant bits, ties to even)
RoundFloat(x) ==
    IF BitLen(x) <= MantissaBits THEN x
    ELSE LET unit == Pow2(BitLen(x) - MantissaBits)
             q == x \div unit
             r == x % unit
             up == 2 * r > unit \/ (2 * r = unit /\ q % 2 = 1)
         IN (IF up THEN q + 1 ELSE q) * unit

\* random.uniform(0, 1) = 0 + (1 - 0) * random.random(): the floats k / 2 ** 53
\* of [0, 1), here k / 2 ** MantissaBits
Jitters == 0..(Pow2(MantissaBits) - 1)

\* a variant with a linear backoff
BackoffBase_Linear(base_delay, attempt) == base_delay * (attempt + 1)

\* "base_delay * (2 ** attempt)", an int
BackoffBase(base_delay, attempt) == base_delay * Pow2(attempt)

\* "delay = base_delay * (2 ** attempt) + random.uniform(0, 1)": the float sum
\* of the int and the jitter
BackoffDelay(base_delay, attempt, jitter) ==
    RoundFloat(BackoffBase(base_delay, attempt) * Pow2(MantissaBits) + jitter)

----------------------------------------------------------------------------
(* The convert_video task and finish_job: app/worker/tasks.py *)

\* the job a message is about
JobOf(m) == req[m[1]].job_id

\* the positions of an execution: before the try block, in its body, in finish_job
PreTryPcs == {"start"}
BodyPcs == {"probe", "transcode", "set_uploading", "rename", "upload"}
FinishPcs == {"fin_expire", "fin_hset", "wh_check", "wh_send"}
RunningPcs == PreTryPcs \cup BodyPcs \cup FinishPcs

\* a message that left the worker: "acked" returned normally, "retried"
\* raised Retry, "raised" let an exception escape, "killed" hit the hard limit
Ended(pc) == [NoTask EXCEPT !.pc = pc]

\* run_async(finish_job(job_id, status, error, callback_url, callback_auth_token))
Finish(e, status, error) ==
    [e EXCEPT !.pc = "fin_expire", !.attempt = 0, !.host = "",
              !.fstatus = status, !.ferror = error]

\* finish_job(..., "completed", ...) is the one call of finish_job inside the
\* try block; the calls with "failed" are in the except clauses and before the try
InTry(e) ==
    \/ e.pc \in BodyPcs
    \/ e.pc \in FinishPcs /\ e.fstatus = "completed"

\* a variant that gives up one retry early
MayRetry_OneFewer(retries) == retries < max_retries - 1

\* "if self.request.retries < self.max_retries"
MayRetry(retries) == retries < max_retries

\* a variant in which NoAudioTrackError, a subclass of FFmpegError, is caught
\* by the clause for FFmpegError
Handler_SubclassShadowed(exc) == IF exc = "NoAudioTrackError" THEN "FFmpegError" ELSE exc

\* the except clause that catches an exception of class exc: the clause for
\* NoAudioTrackError comes before the one for its base class FFmpegError
Handler(exc) == exc

\* a variant in which a retry stays in the stage that failed instead of
\* sending the task again
Raise_RetryInPlace(t, m, exc) ==
    LET e == t[m] IN
    IF ~InTry(e) THEN [t EXCEPT ![m] = Ended("raised")]
    ELSE IF Handler(exc) = "NoAudioTrackError"
    THEN [t EXCEPT ![m] = Finish(e, "failed", MsgNoAudio)]
    ELSE IF Handler(exc) = "FFmpegError"
    THEN IF MayRetry(m[2])
         THEN t
         ELSE [t EXCEPT ![m] = Finish(e, "failed", MsgFfmpegRetries)]
    ELSE IF exc = "SoftTimeLimitExceeded"
    THEN [t EXCEPT ![m] = Finish(e, "failed", MsgTimeout)]
    ELSE [t EXCEPT ![m] = Finish(e, "failed", MsgUnexpected)]

\* an exception of class exc surfaces in the execution of m: the except
\* clauses of convert_video when it surfaces inside the try block, else it
\* leaves the task
Raise(t, m, exc) ==
    LET e == t[m] IN
    IF ~InTry(e) THEN [t EXCEPT ![m] = Ended("raised")]
    ELSE IF Handler(exc) = "NoAudioTrackError"
    THEN [t EXCEPT ![m] = Finish(e, "failed", MsgNoAudio)]
    ELSE IF Handler(exc) = "FFmpegError"
    THEN IF MayRetry(m[2])
         THEN [t EXCEPT ![m] = Ended("retried"), ![<<m[1], m[2] + 1>>] = QueuedTask]
         ELSE [t EXCEPT ![m] = Finish(e, "failed", MsgFfmpegRetries)]
    ELSE IF exc = "SoftTimeLimitExceeded"
    THEN [t EXCEPT ![m] = Finish(e, "failed", MsgTimeout)]
    ELSE [t EXCEPT ![m] = Finish(e, "failed", MsgUnexpected)]

\* a worker child takes the message from the broker
Receive(m) ==
    /\ task[m].pc = "queued"
    /\ task' = [task EXCEPT ![m].pc = "start"]
    /\ UNCHANGED <<aux, now, store, ttl, fs, req, budget>>

\* 1. run_async(redis_client.update_job_status(job_id, "processing")), then
\* input_files = list(job_dir.glob("input.*")); none: finish_job(failed) and
\* return. An error of the Redis client is raised before the try block.
UpdateProcessing(m) ==
    /\ task[m].pc = "start"
    /\ \E outcome \in {"ok", "error"} :
        IF outcome = "ok"
        THEN /\ ttl' = [ttl EXCEPT ![JobOf(m)] = expire(store[JobOf(m)], @, "processing")]
             /\ store' = [store EXCEPT ![JobOf(m)] =
                    update_job_status(@, "processing", "", now)]
             /\ task' = [task EXCEPT ![m] =
                    IF GlobInput(fs[JobOf(m)].files) = {}
                    THEN Finish(@, "failed", MsgInputNotFound)
                    ELSE [@ EXCEPT !.pc = "probe"]]
             /\ budget' = budget
        ELSE /\ budget > 0
             /\ budget' = budget - 1
             /\ task' = Raise(task, m, "Exception")
             /\ UNCHANGED <<store, ttl>>
    /\ UNCHANGED <<aux, now, fs, req>>

\* 2. ffmpeg.validate_audio_track(input_path): ffprobe exits non-zero
\* (FFmpegError), prints no stream (NoAudioTrackError) or prints streams
ProbeOutcome(m, outcome) ==
    /\ task[m].pc = "probe"
    /\ outcome # "FFmpegError" => GlobInput(fs[JobOf(m)].files) # {}
    /\ outcome = "FFmpegError" => budget > 0
    /\ budget' = IF outcome = "FFmpegError"
                 THEN budget - 1 ELSE budget
    /\ task' = IF outcome = "ok" THEN [task EXCEPT ![m].pc = "transcode"]
               ELSE Raise(task, m, outcome)
    /\ UNCHANGED <<aux, now, store, ttl, fs, req>>

Probe(m) ==
    \E outcome \in {"ok", "FFmpegError", "NoAudioTrackError"} : ProbeOutcome(m, outcome)

\* 3. ffmpeg.convert_video(input_path, job_dir / "output.mp3", job_id): stderr
\* goes to ffmpeg.log; exit 0 with a non-empty output.mp3 ("ok"), FFmpegError,
\* or open(ffmpeg.log) fails because the directory is gone ("Exception")
TranscodeOutcome(m, outcome) ==
    /\ task[m].pc = "transcode"
    /\ outcome = "Exception" <=> ~fs[JobOf(m)].exists
    /\ outcome = "ok" => GlobInput(fs[JobOf(m)].files) # {}
    /\ outcome = "FFmpegError" => budget > 0
    /\ budget' = IF outcome = "FFmpegError"
                 THEN budget - 1 ELSE budget
    /\ fs' = IF outcome = "Exception" THEN fs
             ELSE [fs EXCEPT ![JobOf(m)].aged = FALSE, ![JobOf(m)].files =
                    @ \cup (IF outcome = "ok" THEN {FfmpegLog, OutputMp3} ELSE {FfmpegLog})]
    /\ task' = IF outcome = "ok"
               THEN [task EXCEPT ![m].pc = "set_uploading", ![m].ran = TRUE]
               ELSE IF outcome = "FFmpegError"
               THEN Raise([task EXCEPT ![m].ran = TRUE], m, outcome)
               ELSE Raise(task, m, outcome)
    /\ UNCHANGED <<aux, now, store, ttl, req>>

Transcode(m) ==
    \E outcome \in {"ok", "FFmpegError", "Exception"} : TranscodeOutcome(m, outcome)

\* 4. run_async(redis_client.update_job_status(job_id, "uploading"))
UpdateUploading(m) ==
    /\ task[m].pc = "set_uploading"
    /\ ttl' = [ttl EXCEPT ![JobOf(m)] = expire(store[JobOf(m)], @, "uploading")]
    /\ store' = [store EXCEPT ![JobOf(m)] = update_job_status(@, "uploading", "", now)]
    /\ task' = [task EXCEPT ![m].pc = "rename"]
    /\ UNCHANGED <<aux, now, fs, req, budget>>

\* what a named host resolves to at the time of a lookup, in the executions
\* of the task
Resolutions == {"public", "loopback", "gaierror"}

\* the answers a lookup of the URL's host may get: an IP literal needs none
Lookups(url) == IF url.hostname = "name" THEN Resolutions ELSE {"gaierror"}

\* the addresses the HTTP client may connect to when it sends a request to
\* a URL whose hostname is of kind host: the client resolves the name again,
\* at the time of the request
ConnectAddrs(host) == IF host = "ip" THEN {"public"} ELSE Resolutions

\* 5. rename output.mp3 to the name derived from original_filename, then
\* upload_output_wav: "if not is_safe_url(output_url): raise ValueError";
\* output_url is the task's argument and dns the resolver's answer
RenameAndCheck(m, output_url, dns) ==
    /\ task[m].pc = "rename"
    /\ LET out == DerivedName(req[m[1]].filename)
           files == fs[JobOf(m)].files IN
        IF out # OutputMp3 /\ OutputMp3 \notin files
        THEN /\ fs' = fs                              \* FileNotFoundError
             /\ task' = Raise(task, m, "Exception")
        ELSE /\ fs' = [fs EXCEPT ![JobOf(m)].aged = IF out = OutputMp3 THEN @ ELSE FALSE,
                                  ![JobOf(m)].files = (@ \ {OutputMp3}) \cup {out}]
             /\ task' = IF is_safe_url(output_url, dns, ALLOW_PRIVATE_IPS, ALLOW_HTTP_CALLBACKS)
                        THEN [task EXCEPT ![m].pc = "upload", ![m].attempt = 0,
                                          ![m].host = output_url.hostname]
                        ELSE Raise(task, m, "Exception")
    /\ UNCHANGED <<aux, now, store, ttl, req, budget>>

Rename(m) ==
    \E output_url \in TaskUrls :
        \E dns \in Lookups(output_url) : RenameAndCheck(m, output_url, dns)

\* 6. upload_output_wav: one call of do_upload under retry_with_backoff: the
\* client connects to addr and the PUT ends with outcome; after the loop,
\* "6. Finish job -> completed"
UploadRequest(m, outcome, addr) ==
    /\ task[m].pc = "upload"
    /\ addr \in ConnectAddrs(task[m].host)
    /\ addr = "gaierror" => outcome = "retryable"
    /\ outcome = "other" <=>
            (addr # "gaierror" /\ DerivedName(req[m[1]].filename) \notin fs[JobOf(m)].files)
    /\ outcome = "retryable" => budget > 0
    /\ budget' = IF outcome = "retryable"
                 THEN budget - 1 ELSE budget
    /\ LET step == retry_with_backoff(task[m].attempt, UPLOAD_MAX_RETRIES, outcome)
           sent == IF step = "return_none" THEN task     \* do_upload is not called
                   ELSE [task EXCEPT ![m].puts = @ + 1] IN
        task' = IF step \in {"return", "return_none"}
                THEN [sent EXCEPT ![m] = Finish(@, "completed", "")]
                ELSE IF step = "sleep"
                THEN [sent EXCEPT ![m].attempt = @ + 1]
                ELSE Raise(sent, m, "Exception")
    /\ UNCHANGED <<aux, now, store, ttl, fs, req>>

UploadAttempt(m) ==
    \E addr \in ConnectAddrs(task[m].host) :
        \E outcome \in {"ok", "retryable", "other"} : UploadRequest(m, outcome, addr)

\* finish_job -> update_job_status: await client.expire(job_key, 604800); an
\* error of the Redis client is raised where finish_job was called
FinExpire(m) ==
    /\ task[m].pc = "fin_expire"
    /\ \E outcome \in {"ok", "error"} :
        IF outcome = "ok"
        THEN /\ ttl' = [ttl EXCEPT ![JobOf(m)] =
                    expire(store[JobOf(m)], @, task[m].fstatus)]
             /\ task' = [task EXCEPT ![m].pc = "fin_hset"]
             /\ budget' = budget
        ELSE /\ budget > 0
             /\ budget' = budget - 1
             /\ task' = Raise(task, m, "Exception")
             /\ ttl' = ttl
    /\ UNCHANGED <<aux, now, store, fs, req>>

\* finish_job -> update_job_status: await client.hset(job_key, mapping=updates);
\* then "if callback_url:"; without a callback finish_job and the task return
FinHset(m) ==
    /\ task[m].pc = "fin_hset"
    /\ store' = [store EXCEPT ![JobOf(m)] =
            update_job_status(@, task[m].fstatus, task[m].ferror, now)]
    /\ task' = [task EXCEPT ![m] =
            IF req[m[1]].cb THEN [@ EXCEPT !.pc = "wh_check"] ELSE Ended("acked")]
    /\ UNCHANGED <<aux, now, ttl, fs, req, budget>>

\* fire_webhook: "if not is_safe_url(callback_url): logger.error(
\* "webhook_blocked_insecure_url"); return"
WebhookCheckUrl(m, callback_url, dns) ==
    /\ task[m].pc = "wh_check"
    /\ task' = [task EXCEPT ![m] =
            IF is_safe_url(callback_url, dns, ALLOW_PRIVATE_IPS, ALLOW_HTTP_CALLBACKS)
            THEN [@ EXCEPT !.pc = "wh_send", !.attempt = 0, !.host = callback_url.hostname]
            ELSE [Ended("acked") EXCEPT !.wh = "webhook_blocked_insecure_url"]]
    /\ UNCHANGED <<aux, now, store, ttl, fs, req, budget>>

WebhookCheck(m) ==
    \E callback_url \in TaskUrls :
        \E dns \in Lookups(callback_url) : WebhookCheckUrl(m, callback_url, dns)

\* a variant without the except clause: the error goes on to finish_job
fire_webhook_except_Reraise(step) == "raise"

\* fire_webhook: "except Exception as e: logger.error(...)": what becomes of
\* the error that retry_with_backoff re-raises
fire_webhook_except(step) == "return"

\* fire_webhook: the payload of the POST (besides the job id)
Payload(e) == [status |-> e.fstatus, error |-> e.ferror]

\* fire_webhook: one call of do_webhook under retry_with_backoff: the client
\* connects to addr and the POST ends with outcome
WebhookRequest(m, outcome, addr) ==
    /\ task[m].pc = "wh_send"
    /\ addr \in ConnectAddrs(task[m].host)
    /\ addr = "gaierror" => outcome = "retryable"
    /\ outcome = "retryable" => budget > 0
    /\ budget' = IF outcome = "retryable"
                 THEN budget - 1 ELSE budget
    /\ LET step == retry_with_backoff(task[m].attempt, WEBHOOK_MAX_RETRIES, outcome) IN
        task' = IF step = "sleep"
                THEN [task EXCEPT ![m].attempt = @ + 1]
                ELSE IF step = "raise" /\ fire_webhook_except(step) = "raise"
                THEN Raise(task, m, "Exception")
                ELSE [task EXCEPT ![m] = [Ended("acked") EXCEPT !.wh =
                        IF step = "raise" THEN "webhook_failed_permanently"
                        ELSE "webhook_delivered"]]
    /\ UNCHANGED <<aux, now, store, ttl, fs, req>>

WebhookAttempt(m) ==
    \E addr \in ConnectAddrs(task[m].host) :
        \E outcome \in {"ok", "retryable"} : WebhookRequest(m, outcome, addr)

\* task_soft_time_limit: SoftTimeLimitExceeded is raised in the running task,
\* once per execution. It surfaces in convert_video, unless it lands in the
\* try block of fire_webhook, whose "except Exception" swallows it.
SoftLimit(m) ==
    /\ task[m].pc \in RunningPcs
    /\ ~task[m].soft
    /\ budget > 0
    /\ budget' = budget - 1
    /\ \E swallowed \in BOOLEAN :
        /\ swallowed => task[m].pc = "wh_send"
        /\ task' = IF swallowed
                   THEN [task EXCEPT ![m] =
                            [Ended("acked") EXCEPT !.wh = "webhook_failed_permanently"]]
                   ELSE Raise([task EXCEPT ![m].soft = TRUE], m, "SoftTimeLimitExceeded")
    /\ UNCHANGED <<aux, now, store, ttl, fs, req>>

\* task_time_limit: the worker child is killed. The task has acks_late, and
\* the message is either acknowledged with the failure or left unacknowledged
\* and delivered again after the visibility timeout.
HardLimit(m) ==
    /\ task[m].pc \in RunningPcs
    /\ budget > 0
    /\ budget' = budget - 1
    /\ \E redelivered \in BOOLEAN :
        task' = [task EXCEPT ![m] = IF redelivered THEN QueuedTask ELSE Ended("killed")]
    /\ UNCHANGED <<aux, now, store, ttl, fs, req>>

\* the worker child is lost mid-task: acks_late and reject_on_worker_lost put
\* the message back in the queue
WorkerLost(m) ==
    /\ task[m].pc \in RunningPcs
    /\ budget > 0
    /\ budget' = budget - 1
    /\ task' = [task EXCEPT ![m] = QueuedTask]
    /\ UNCHANGED <<aux, now, store, ttl, fs, req>>

----------------------------------------------------------------------------
(* The reaper (cleanup_orphaned_files in app/worker/tasks.py) and the start *)
(* of the API process (lifespan in app/main.py, boot_cleanup in storage.py) *)

\* time passes: now - st_mtime of the directory exceeds TEMP_FILE_TTL_SECONDS
Age(j) ==
    /\ fs[j].exists /\ ~fs[j].aged
    /\ fs' = [fs EXCEPT ![j].aged = TRUE]
    /\ UNCHANGED <<now, store, ttl, req, task, budget, reaper, call>>

\* "if not job_data or job_data.get("status") in ("completed", "failed")"
Reapable(rec) == ~Exists(rec) \/ rec.status \in {"completed", "failed"}

\* cleanup_orphaned_files, for one directory of TEMP_DIR.iterdir(): the age
\* test and run_async(redis_client.get_job(job_id)); a directory that is
\* young or whose job is active is passed over
ReapCheck(j) ==
    /\ reaper = NoJobId
    /\ fs[j].exists /\ fs[j].aged
    /\ Reapable(store[j])
    /\ reaper' = j
    /\ UNCHANGED <<now, store, ttl, fs, req, task, budget, call>>

\* cleanup_orphaned_files: storage.cleanup_job_dir(job_id)
ReapRemove ==
    /\ reaper # NoJobId
    /\ fs' = [fs EXCEPT ![reaper] = cleanup_job_dir(@)]
    /\ reaper' = NoJobId
    /\ UNCHANGED <<now, store, ttl, req, task, budget, call>>

\* boot_cleanup: every child of TEMP_DIR is removed
boot_cleanup(dirs) == [j \in DOMAIN dirs |-> NoDir]

\* the API process starts again: the submissions it was serving get no
\* response, and lifespan runs storage.boot_cleanup()
Restart ==
    /\ budget > 0
    /\ budget' = budget - 1
    /\ \E j \in JobIds : fs[j].exists
    /\ fs' = boot_cleanup(fs)
    /\ req' = [r \in Reqs |->
            IF req[r].pc \in {"open", "stream", "create", "enqueue"}
            THEN [req[r] EXCEPT !.pc = "done"] ELSE req[r]]
    /\ UNCHANGED <<now, store, ttl, task, reaper, call>>

----------------------------------------------------------------------------
(* The specifications *)

\* one step of a submission
PostStep(r) ==
    PostStart(r) \/ PostOpen(r) \/ PostStream(r) \/ PostCreate(r) \/ PostEnqueue(r)

\* one step of the execution of a message
TaskStep(m) ==
    \/ Receive(m) \/ UpdateProcessing(m) \/ Probe(m) \/ Transcode(m)
    \/ UpdateUploading(m) \/ Rename(m) \/ UploadAttempt(m)
    \/ FinExpire(m) \/ FinHset(m) \/ WebhookCheck(m) \/ WebhookAttempt(m)

InitProgram(arriving, b) ==
    /\ now = 0
    /\ store = [j \in JobIds |-> NoRec]
    /\ ttl = [j \in JobIds |-> 0]
    /\ fs = [j \in JobIds |-> NoDir]
    /\ req = [r \in Reqs |-> IF r \in arriving THEN NewReq ELSE [NewReq EXCEPT !.pc = "off"]]
    /\ task = [m \in Msgs |-> NoTask]
    /\ budget = b
    /\ reaper = NoJobId

InitState(arriving, b) ==
    /\ InitProgram(arriving, b)
    /\ call = NoCall

\* every submission arrives; few failures
Init ==
    InitState(Reqs, MaxFailures)

\* one submission arrives; failures enough to exhaust every retry
InitOne ==
    InitState({1}, OneFailures)

Next ==
    \/ \E r \in Reqs : PostStart(r)
    \/ \E r \in Reqs : PostOpen(r)
    \/ \E r \in Reqs : PostStream(r)
    \/ \E r \in Reqs : PostCreate(r)
    \/ \E r \in Reqs : PostEnqueue(r)
    \/ \E m \in Msgs : Receive(m)
    \/ \E m \in Msgs : UpdateProcessing(m)
    \/ \E m \in Msgs : Probe(m)
    \/ \E m \in Msgs : Transcode(m)
    \/ \E m \in Msgs : UpdateUploading(m)
    \/ \E m \in Msgs : Rename(m)
    \/ \E m \in Msgs : UploadAttempt(m)
    \/ \E m \in Msgs : FinExpire(m)
    \/ \E m \in Msgs : FinHset(m)
    \/ \E m \in Msgs : WebhookCheck(m)
    \/ \E m \in Msgs : WebhookAttempt(m)
    \/ \E m \in Msgs : SoftLimit(m)
    \/ \E m \in Msgs : WorkerLost(m)
    \/ \E m \in Msgs : HardLimit(m)

Spec == Init /\ [][Next]_vars

SpecOne == InitOne /\ [][Next]_vars

\* the API serves every submission and the workers keep taking and running
\* tasks; the failures are not fair
FairSpecOne ==
    /\ InitOne /\ [][Next]_vars
    /\ \A r \in Reqs : WF_vars(PostStep(r))
    /\ \A m \in Msgs : WF_vars(TaskStep(m))

\* one submission, the reaper and restarts of the API process
InitOps ==
    InitState({1}, OpsFailures)

NextOps ==
    \/ Next
    \/ \E j \in JobIds : Age(j)
    \/ \E j \in JobIds : ReapCheck(j)
    \/ ReapRemove
    \/ Restart

SpecOps == InitOps /\ [][NextOps]_vars

\* config.py: UPLOAD_RETRY_BACKOFF_BASE and WEBHOOK_RETRY_BACKOFF_BASE are 2
BaseDelays == {1, 2}

\* retry_with_backoff called on its own: attempt is the loop variable, slept
\* the failed attempt and the delay of the last asyncio.sleep, calls the
\* number of calls of func() so far and last the outcome of the latest one
InitRetry ==
    /\ InitProgram({}, 0)
    /\ call \in [fn : {"retry_with_backoff"}, max_retries : 0..MaxRetriesArg,
                 base_delay : BaseDelays, attempt : {0}, pc : {"loop"},
                 slept : {<<>>}, calls : {0}, last : {""}]

\* one pass of the loop: func() ends with outcome; on a retryable error
\* before the last attempt the function sleeps for the delay
RetryPass ==
    /\ call.fn = "retry_with_backoff" /\ call.pc = "loop"
    /\ \E outcome \in {"ok", "retryable", "other"}, jitter \in Jitters :
        LET step == retry_with_backoff(call.attempt, call.max_retries, outcome)
            called == IF step = "return_none" THEN call          \* no pass of the loop
                      ELSE [call EXCEPT !.calls = @ + 1, !.last = outcome] IN
        call' = IF step = "sleep"
                THEN [called EXCEPT !.attempt = @ + 1,
                        !.slept = <<call.attempt,
                                    BackoffDelay(call.base_delay, call.attempt, jitter)>>]
                ELSE [called EXCEPT !.pc = step]
    /\ UNCHANGED <<now, store, ttl, fs, req, task, budget, reaper>>

SpecRetry == InitRetry /\ [][RetryPass]_vars

\* is_safe_url called on its own: every URL, answer of the resolver and setting
InitIsSafeUrl ==
    /\ InitProgram({}, 0)
    /\ call \in [fn : {"is_safe_url"}, url : Urls, dns : DnsAnswers,
                 allow_private_ips : BOOLEAN, allow_http_callbacks : BOOLEAN,
                 result : {<<>>}]

CallIsSafeUrl ==
    /\ call.fn = "is_safe_url" /\ call.result = <<>>
    /\ call' = [call EXCEPT !.result =
            <<is_safe_url(call.url, call.dns, call.allow_private_ips,
                          call.allow_http_callbacks)>>]
    /\ UNCHANGED <<now, store, ttl, fs, req, task, budget, reaper>>

SpecIsSafeUrl == InitIsSafeUrl /\ [][CallIsSafeUrl]_vars

----------------------------------------------------------------------------
(* boot_cleanup in app/services/storage.py, called on its own *)

\* the children TEMP_DIR may hold when the process starts: <<name, is_dir()>>
BootChildren ==
    {<<"job-1", TRUE>>, <<"job-2", TRUE>>, <<"orphaned.txt", FALSE>>, <<"lost+found", TRUE>>}

\* TEMP_DIR before the call: missing, or present with some children, some of
\* which cannot be deleted (shutil.rmtree or unlink raises)
InitBoot ==
    /\ InitProgram({}, 0)
    /\ call \in [fn : {"boot_cleanup"}, pc : {"start"}, exists : BOOLEAN,
                 children : SUBSET BootChildren, undeletable : SUBSET BootChildren,
                 log : {""}]
    /\ call.undeletable \subseteq call.children
    /\ ~call.exists => call.children = {}

\* "if settings.TEMP_DIR.exists():" and, when it does not, the else branch:
\* mkdir(parents=True, exist_ok=True)
BootCleanupStart ==
    /\ call.fn = "boot_cleanup" /\ call.pc = "start"
    /\ call' = IF call.exists
               THEN [call EXCEPT !.pc = "iterdir", !.log = "boot_cleanup_started"]
               ELSE [call EXCEPT !.pc = "done", !.exists = TRUE, !.log = "temp_dir_created"]
    /\ UNCHANGED <<now, store, ttl, fs, req, task, budget, reaper>>

\* one pass of "for item in settings.TEMP_DIR.iterdir()", in the order the
\* directory yields: rmtree of a directory or unlink of a file; when it raises,
\* "except Exception" logs boot_cleanup_failed and the function returns
BootCleanupItem ==
    /\ call.fn = "boot_cleanup" /\ call.pc = "iterdir"
    /\ \E item \in call.children :
        call' = IF item \in call.undeletable
                THEN [call EXCEPT !.pc = "done", !.log = "boot_cleanup_failed"]
                ELSE [call EXCEPT !.children = @ \ {item}]
    /\ UNCHANGED <<now, store, ttl, fs, req, task, budget, reaper>>

\* the iteration is over: boot_cleanup_completed
BootCleanupEnd ==
    /\ call.fn = "boot_cleanup" /\ call.pc = "iterdir"
    /\ call.children = {}
    /\ call' = [call EXCEPT !.pc = "done", !.log = "boot_cleanup_completed"]
    /\ UNCHANGED <<now, store, ttl, fs, req, task, budget, reaper>>

NextBoot == BootCleanupStart \/ BootCleanupItem \/ BootCleanupEnd

SpecBoot == InitBoot /\ [][NextBoot]_vars

----------------------------------------------------------------------------
(* The transcoder driver: convert_video in app/services/ffmpeg.py, called *)
(* on its own                                                              *)

\* a variant that looks at the output file before the exit code
convert_video_result_OutputFirst(returncode, output) ==
    IF output # "data" THEN "InvalidOutput"
    ELSE IF returncode # 0 THEN "TranscodeFailed"
    ELSE "ok"

\* the end of convert_video, after "await process.wait()": FFmpegError
\* "FFmpeg failed with exit code ..." (TranscodeFailed), FFmpegError "FFmpeg
\* produced empty or missing output file." (InvalidOutput), or a normal return
convert_video_result(returncode, output) ==
    IF returncode # 0 THEN "TranscodeFailed"
    ELSE IF output = "missing" \/ output = "empty" THEN "InvalidOutput"
    ELSE "ok"

\* the call before create_subprocess_exec: the job directory may be gone
\* (dir_ok), and output.mp3 and ffmpeg.log (log) may be left from an earlier
\* execution
InitDriver ==
    /\ InitProgram({}, 0)
    /\ call \in [fn : {"convert_video"}, pc : {"spawn"}, child : {"none"},
                 returncode : {<<>>}, terminated : {FALSE}, dir_ok : BOOLEAN,
                 output : {"missing", "data"}, log : BOOLEAN, result : {""}]
    /\ ~call.dir_ok => ~call.log /\ call.output = "missing"

\* process = await asyncio.create_subprocess_exec(*cmd, ...)
DriverSpawn ==
    /\ call.fn = "convert_video" /\ call.pc = "spawn"
    /\ call' = [call EXCEPT !.pc = "open_log", !.child = "running"]
    /\ UNCHANGED <<now, store, ttl, fs, req, task, budget, reaper>>

\* ffmpeg -y opens output_path and writes it; without the job directory it
\* writes nothing
ChildWrites ==
    /\ call.fn = "convert_video" /\ call.child = "running" /\ call.dir_ok
    /\ \E output \in {"empty", "data"} :
        /\ output # call.output
        /\ call' = [call EXCEPT !.output = output]
    /\ UNCHANGED <<now, store, ttl, fs, req, task, budget, reaper>>

\* the child exits: by itself with code 0 or 1, or on SIGTERM (ffmpeg then
\* exits with 255)
ChildExits ==
    /\ call.fn = "convert_video" /\ call.child = "running"
    /\ \E code \in {0, 1, 255} :
        /\ code = 255 <=> call.terminated
        /\ call' = [call EXCEPT !.child = "exited", !.returncode = <<code>>]
    /\ UNCHANGED <<now, store, ttl, fs, req, task, budget, reaper>>

\* "await asyncio.gather(log_output(process.stdout), capture_stderr(process.stderr))":
\* capture_stderr starts with open(log_file_path, "wb"), which creates
\* ffmpeg.log or, without the job directory, raises FileNotFoundError; the
\* exception, which is not CancelledError, leaves convert_video
DriverOpenLog ==
    /\ call.fn = "convert_video" /\ call.pc = "open_log"
    /\ call' = IF call.dir_ok
               THEN [call EXCEPT !.pc = "gather", !.log = TRUE]
               ELSE [call EXCEPT !.pc = "done", !.result = "Exception"]
    /\ UNCHANGED <<now, store, ttl, fs, req, task, budget, reaper>>

\* f.write(chunk) raises while the streams are read (the disk is full), and
\* the exception leaves gather and convert_video
DriverGatherRaises ==
    /\ call.fn = "convert_video" /\ call.pc = "gather"
    /\ call' = [call EXCEPT !.pc = "done", !.result = "Exception"]
    /\ UNCHANGED <<now, store, ttl, fs, req, task, budget, reaper>>

\* both streams reach end of file once the child has exited
DriverGatherEnds ==
    /\ call.fn = "convert_video" /\ call.pc = "gather"
    /\ call.dir_ok
    /\ call.child = "exited"
    /\ call' = [call EXCEPT !.pc = "wait"]
    /\ UNCHANGED <<now, store, ttl, fs, req, task, budget, reaper>>

\* "await process.wait()" returns, and the exit code and the output are tested
DriverWaitAndCheck ==
    /\ call.fn = "convert_video" /\ call.pc = "wait"
    /\ call.child = "exited"
    /\ call' = [call EXCEPT !.pc = "done",
            !.result = convert_video_result(call.returncode[1], call.output)]
    /\ UNCHANGED <<now, store, ttl, fs, req, task, budget, reaper>>

\* "except asyncio.CancelledError: process.terminate()": the task is
\* cancelled while it awaits gather or process.wait(). A child that is
\* running gets SIGTERM; terminate() on a child that has exited does
\* nothing, or raises ProcessLookupError once the transport has finished
DriverCancelled ==
    /\ call.fn = "convert_video" /\ call.pc \in {"open_log", "gather", "wait"}
    /\ \E lookup_error \in BOOLEAN :
        /\ lookup_error => call.pc = "wait"
        /\ call' = IF lookup_error
                   THEN [call EXCEPT !.pc = "done", !.result = "ProcessLookupError"]
                   ELSE [call EXCEPT !.pc = "cancel_wait",
                                     !.terminated = (call.child = "running")]
    /\ UNCHANGED <<now, store, ttl, fs, req, task, budget, reaper>>

\* "await process.wait(); raise" in the except clause
DriverCancelWait ==
    /\ call.fn = "convert_video" /\ call.pc = "cancel_wait"
    /\ call.child = "exited"
    /\ call' = [call EXCEPT !.pc = "done", !.result = "CancelledError"]
    /\ UNCHANGED <<now, store, ttl, fs, req, task, budget, reaper>>

NextDriver ==
    \/ DriverSpawn \/ ChildWrites \/ ChildExits \/ DriverOpenLog \/ DriverGatherRaises
    \/ DriverGatherEnds \/ DriverWaitAndCheck \/ DriverCancelled \/ DriverCancelWait

SpecDriver == InitDriver /\ [][NextDriver]_vars

----------------------------------------------------------------------------
(* The probe: validate_audio_track in app/services/ffmpeg.py, called on its own *)

\* the longest stdout of ffprobe that is tried
MaxStdout == 3

\* the bytes ffprobe prints with "-show_entries stream=index -of csv=p=0":
\* digits and line ends; and blanks
StdoutBytes == {"0", "1", "\n", " "}

\* the bytes that bytes.strip() removes
Whitespace == {" ", "\n", "\t", "\r"}

\* every stdout of at most MaxStdout bytes
Stdouts == UNION {[1..n -> StdoutBytes] : n \in 0..MaxStdout}

\* bytes.lstrip() and bytes.rstrip()
RECURSIVE LStrip(_)
LStrip(b) ==
    IF b = <<>> THEN b
    ELSE IF Head(b) \in Whitespace THEN LStrip(Tail(b))
    ELSE b

RECURSIVE RStrip(_)
RStrip(b) ==
    IF b = <<>> THEN b
    ELSE IF b[Len(b)] \in Whitespace THEN RStrip(SubSeq(b, 1, Len(b) - 1))
    ELSE b

\* stdout.strip()
Strip(b) == RStrip(LStrip(b))

\* a variant that looks at stdout before the exit code
validate_audio_track_StdoutFirst(returncode, stdout) ==
    IF Strip(stdout) = <<>> THEN "NoAudioTrackError"
    ELSE IF returncode # 0 THEN "FFmpegError"
    ELSE "ok"

\* validate_audio_track after "await process.communicate()": "if
\* process.returncode != 0: raise FFmpegError", then "if not stdout.strip():
\* raise NoAudioTrackError", else the normal return
validate_audio_track(returncode, stdout) ==
    IF returncode # 0 THEN "FFmpegError"
    ELSE IF Strip(stdout) = <<>> THEN "NoAudioTrackError"
    ELSE "ok"

InitProbe ==
    /\ InitProgram({}, 0)
    /\ call \in [fn : {"validate_audio_track"}, returncode : {0, 1},
                 stdout : Stdouts, result : {<<>>}]

CallValidateAudioTrack ==
    /\ call.fn = "validate_audio_track" /\ call.result = <<>>
    /\ call' = [call EXCEPT !.result =
            <<validate_audio_track(call.returncode, call.stdout)>>]
    /\ UNCHANGED <<now, store, ttl, fs, req, task, budget, reaper>>

SpecProbe == InitProbe /\ [][CallValidateAudioTrack]_vars

----------------------------------------------------------------------------
(* Step 6 of convert_video on its own, for every setting of             *)
(* UPLOAD_MAX_RETRIES: upload_output_wav in app/services/uploader.py and *)
(* the finish_job that follows it in app/worker/tasks.py                 *)

\* the transcode is done and the job is in status uploading; max_retries is
\* settings.UPLOAD_MAX_RETRIES, puts the number of PUT requests sent and
\* accepted whether one of them got a 2xx response
InitUpload ==
    /\ InitProgram({}, 0)
    /\ call \in [fn : {"upload_output_wav"}, max_retries : 0..MaxRetriesArg,
                 safe : BOOLEAN, pc : {"check_url"}, attempt : {0}, puts : {0},
                 accepted : {FALSE}, last : {""}, status : {"uploading"}]

\* "if not is_safe_url(output_url): raise ValueError"; safe is the answer of
\* is_safe_url
UploadCheckUrl ==
    /\ call.fn = "upload_output_wav" /\ call.pc = "check_url"
    /\ call' = [call EXCEPT !.pc = IF call.safe THEN "loop" ELSE "raised"]
    /\ UNCHANGED <<now, store, ttl, fs, req, task, budget, reaper>>

\* one pass of retry_with_backoff(do_upload, max_retries=settings.UPLOAD_MAX_RETRIES,
\* ...): the PUT gets a 2xx response ("ok"), a non-2xx response or a transport
\* error ("retryable"), or do_upload raises another exception ("other")
UploadPass ==
    /\ call.fn = "upload_output_wav" /\ call.pc = "loop"
    /\ \E outcome \in {"ok", "retryable", "other"} :
        LET step == retry_with_backoff(call.attempt, call.max_retries, outcome)
            sent == IF step = "return_none" THEN call    \* do_upload is not called
                    ELSE [call EXCEPT !.puts = IF outcome = "other" THEN @ ELSE @ + 1,
                                      !.accepted = @ \/ outcome = "ok",
                                      !.last = outcome] IN
        call' = IF step = "sleep" THEN [sent EXCEPT !.attempt = @ + 1]
                ELSE IF step = "raise" THEN [sent EXCEPT !.pc = "raised"]
                ELSE [sent EXCEPT !.pc = "returned"]
    /\ UNCHANGED <<now, store, ttl, fs, req, task, budget, reaper>>

\* upload_output_wav has returned: "6. Finish job -> completed"; it has
\* raised: "except Exception" calls finish_job(failed)
UploadFinish ==
    /\ call.fn = "upload_output_wav" /\ call.pc \in {"returned", "raised"}
    /\ call' = [call EXCEPT !.pc = "finished",
            !.status = IF call.pc = "returned" THEN "completed" ELSE "failed"]
    /\ UNCHANGED <<now, store, ttl, fs, req, task, budget, reaper>>

NextUpload == UploadCheckUrl \/ UploadPass \/ UploadFinish

SpecUpload == InitUpload /\ [][NextUpload]_vars

----------------------------------------------------------------------------
(* The input file of one job: where create_job_endpoint (app/api/routes.py) *)
(* stores it and where convert_video (app/worker/tasks.py) looks for it     *)

\* how many times the task is delivered again
MaxRedeliveries == 2

\* file.filename is None or empty
NoFilename == FileName("", "")

\* the names a client may give the upload
UploadNames ==
    {FileName("talk", ".mp4"), FileName("talk", ""), FileName("input", ".mp4"),
     FileName("input", ".mp3"), NoFilename}

\* ext = os.path.splitext(file.filename)[1] if file.filename else ".bin"
StoredExt(f) == IF f = NoFilename THEN ".bin" ELSE Ext(f)

\* input_path = job_dir / f"input{ext}"
StoredInput(f) == FileName("input", StoredExt(f))

\* original_filename = file.filename or "input.bin"
OriginalFilename(f) == IF f = NoFilename THEN FileName("input", ".bin") ELSE f

\* Path.rename: the file takes the new name, replacing a file of that name
RenameFile(dir, old, new) ==
    [n \in (DOMAIN dir \ {old}) \cup {new} |-> IF n = new THEN dir[old] ELSE dir[n]]

\* a file is written, created or replaced
WriteFile(dir, name, content) ==
    [n \in DOMAIN dir \cup {name} |-> IF n = name THEN content ELSE dir[n]]

\* the submission arrives; dir is the job directory, name -> what the file holds
InitInput ==
    /\ InitProgram({}, 0)
    /\ call \in [fn : {"input_file"}, filename : UploadNames, pc : {"ingress"},
                 dir : {<<>>}, input_path : {<<>>}, deliveries : {0}]

\* create_job_endpoint: the upload is streamed to input_path and the task is sent
IngressStore ==
    /\ call.fn = "input_file" /\ call.pc = "ingress"
    /\ call' = [call EXCEPT !.pc = "locate",
                            !.dir = WriteFile(<<>>, StoredInput(call.filename), "upload")]
    /\ UNCHANGED <<now, store, ttl, fs, req, task, budget, reaper>>

\* input_files = list(job_dir.glob("input.*")); none: "Input file not found.";
\* else input_path = input_files[0], in the order the directory yields
RunnerLocate ==
    /\ call.fn = "input_file" /\ call.pc = "locate"
    /\ IF GlobInput(DOMAIN call.dir) = {}
       THEN call' = [call EXCEPT !.pc = "not_found"]
       ELSE \E input_path \in GlobInput(DOMAIN call.dir) :
            call' = [call EXCEPT !.pc = "transcode", !.input_path = <<input_path>>]
    /\ UNCHANGED <<now, store, ttl, fs, req, task, budget, reaper>>

\* the probe and ffmpeg.convert_video(input_path, job_dir / "output.mp3", job_id)
RunnerTranscode ==
    /\ call.fn = "input_file" /\ call.pc = "transcode"
    /\ call' = [call EXCEPT !.pc = "rename",
            !.dir = WriteFile(WriteFile(@, FfmpegLog, "log"), OutputMp3, "audio")]
    /\ UNCHANGED <<now, store, ttl, fs, req, task, budget, reaper>>

\* output_filename = Path(original_filename).with_suffix(".mp3").name, and
\* output.mp3 is renamed to it
RunnerRename ==
    /\ call.fn = "input_file" /\ call.pc = "rename"
    /\ LET out == DerivedName(OriginalFilename(call.filename)) IN
        call' = [call EXCEPT !.pc = "upload",
                !.dir = IF out # OutputMp3 THEN RenameFile(@, OutputMp3, out) ELSE @]
    /\ UNCHANGED <<now, store, ttl, fs, req, task, budget, reaper>>

\* the upload and finish_job
RunnerFinish ==
    /\ call.fn = "input_file" /\ call.pc = "upload"
    /\ call' = [call EXCEPT !.pc = "done"]
    /\ UNCHANGED <<now, store, ttl, fs, req, task, budget, reaper>>

\* the task is delivered again, after a retry or the loss of the worker at
\* any stage (acks_late, reject_on_worker_lost): it starts at the beginning
Redelivered ==
    /\ call.fn = "input_file" /\ call.pc \in {"transcode", "rename", "upload"}
    /\ call.deliveries < MaxRedeliveries
    /\ call' = [call EXCEPT !.pc = "locate", !.deliveries = @ + 1, !.input_path = <<>>]
    /\ UNCHANGED <<now, store, ttl, fs, req, task, budget, reaper>>

NextInput ==
    \/ IngressStore \/ RunnerLocate \/ RunnerTranscode \/ RunnerRename
    \/ RunnerFinish \/ Redelivered

SpecInput == InitInput /\ [][NextInput]_vars

----------------------------------------------------------------------------
(* The claims *)

Terminal == {"completed", "failed"}

\* the submissions carrying job id j whose create_job has run
Creators(j) ==
    {r \in Reqs : req[r].job_id = j /\ (req[r].pc = "enqueue" \/ task[<<r, 0>>].pc # "none")}

\* the submissions carrying job id j that enqueued a convert_video task
Enqueuers(j) == {r \in Reqs : req[r].job_id = j /\ task[<<r, 0>>].pc # "none"}

\* C1: whatever the interleaving of the submissions that carry one job id, at
\* most one of them creates the job's record and at most one of them
\* enqueues a convert_video task for it.
C1_OneRecordOneTask ==
    \A j \in JobIds : Cardinality(Creators(j)) <= 1 /\ Cardinality(Enqueuers(j)) <= 1

\* C2: create_job is first-writer-wins: called when the record exists, it
\* leaves every field of the stored record as it was and reports that the
\* record exists (it adds no field).
C2_FirstWriterWins ==
    [][\A r \in Reqs :
        (PostCreate(r) /\ Exists(store[req[r].job_id]))
            => /\ store'[req[r].job_id] = store[req[r].job_id]
               /\ create_job_result(store[req[r].job_id]) = 0]_vars

\* the step in which submission r leaves the lookup of its job id, the record
\* of that id existing and no other submission of the id being in flight
LooksUpExisting(r) ==
    /\ req[r].pc = "new"
    /\ req'[r].pc # "new"
    /\ Exists(store[req'[r].job_id])
    /\ InFlight(req'[r].job_id) = {}

\* the idempotent return: the answer is the record's job id, status and
\* created_at, and nothing changes in the store, the queue or the directories
ReturnsExisting(r) ==
    /\ req'[r].pc = "done"
    /\ req'[r].resp = [code |-> 202, status |-> store[req'[r].job_id].status,
                       created_at |-> store[req'[r].job_id].created_at[1]]
    /\ UNCHANGED <<store, ttl, fs, task>>

\* C3 as stated: a submission whose job id already has a record returns that
\* record's job id, status and created_at and changes nothing.
C3_Original ==
    [][\A r \in Reqs : LooksUpExisting(r) => ReturnsExisting(r)]_vars

\* C3 as amended: a submission that passes the disk space check and whose job
\* id already has a record returns that record's job id, status and
\* created_at and changes nothing; one that fails the check is answered 503
\* and changes nothing either.
C3_IdempotentReturn ==
    [][\A r \in Reqs : LooksUpExisting(r) =>
        \/ ReturnsExisting(r)
        \/ /\ req'[r].pc = "done" /\ req'[r].resp.code = 503
           /\ UNCHANGED <<store, ttl, fs, task>>]_vars

\* a second submission of an id was answered with the record of the first,
\* while the job was already past queued
C3_Witness ==
    \E r \in Reqs :
        /\ req[r].pc = "done" /\ req[r].resp.code = 202
        /\ task[<<r, 0>>].pc = "none"
        /\ req[r].resp.status = "uploading"

Rank(status) ==
    CASE status = "queued" -> 0
      [] status = "processing" -> 1
      [] status = "uploading" -> 2
      [] status \in Terminal -> 3
      [] OTHER -> 0 - 1

\* C4: every change of a job's stored status moves forward in the order
\* queued, processing, uploading, then completed or failed; it never moves
\* backward.
C4_StatusMovesForward ==
    [][\A j \in JobIds :
        (Exists(store[j]) /\ store'[j].status # store[j].status)
            => Rank(store'[j].status) > Rank(store[j].status)]_vars

\* C5: terminal states are absorbing: once a job's stored status is completed
\* or failed, no later step changes it.
C5_TerminalAbsorbing ==
    [][\A j \in JobIds :
        store[j].status \in Terminal => store'[j].status = store[j].status]_vars

\* C6: every job whose record was created eventually has status completed or
\* failed in the store.
C6_EventuallyTerminal ==
    \A j \in JobIds : Exists(store[j]) ~> (store[j].status \in Terminal)

\* C7: in every state of a job record, the error field is non-empty if and
\* only if the status is failed.
C7_ErrorIffFailed ==
    \A j \in JobIds :
        Exists(store[j]) => (store[j].error # "" <=> store[j].status = "failed")

\* C8: every job record whose status is completed or failed has completed_at
\* set and carries the 7-day expiry on its key.
C8_TerminalHasExpiry ==
    \A j \in JobIds :
        store[j].status \in Terminal
            => store[j].completed_at # <<>> /\ ttl[j] = 7 * 24 * 60 * 60

\* a record was marked failed, and another completed
C8_Witness ==
    /\ \E j \in JobIds : store[j].status = "failed" /\ ttl[j] = TERMINAL_TTL
    /\ \E j \in JobIds : store[j].status = "completed" /\ ttl[j] = TERMINAL_TTL

\* C9: at no time are two executions of convert_video for one job id running.
C9_OneRunnerPerJob ==
    \A m1, m2 \in Msgs :
        (m1 # m2 /\ task[m1].pc \in RunningPcs /\ task[m2].pc \in RunningPcs)
            => JobOf(m1) # JobOf(m2)

\* C10: whatever the outcome of the webhook (URL rejected as unsafe, an
\* attempt failing, every attempt failing), fire_webhook returns without
\* raising and writes nothing: the record stays as finish_job wrote it, and
\* finish_job and the task return.
C10_WebhookNeverAffectsJob ==
    [][\A m \in Msgs :
        (WebhookCheck(m) \/ WebhookAttempt(m))
            => /\ UNCHANGED <<store, ttl>>
               /\ task'[m].pc \in {"wh_send", "acked"}
               /\ task'[m].pc = "wh_send" => /\ task'[m].fstatus = task[m].fstatus
                                             /\ task'[m].ferror = task[m].ferror]_vars

\* every attempt of the webhook failed after the job was marked completed,
\* and the task returned with the record still completed
C10_Witness ==
    \E m \in Msgs :
        /\ task[m].pc = "acked"
        /\ task[m].wh = "webhook_failed_permanently"
        /\ budget = 0
        /\ store[JobOf(m)].status = "completed"

\* a call of is_safe_url that has returned
IsSafeUrlReturned == call.fn = "is_safe_url" /\ call.result # <<>>

\* the conditions C12 lists besides the bypass: the scheme is https (or http
\* with ALLOW_HTTP_CALLBACKS), a hostname is present and resolves, and the
\* address is neither private, loopback nor link-local
C12_AllOf ==
    /\ call.url.parses
    /\ call.url.scheme = "https" \/ (call.url.scheme = "http" /\ call.allow_http_callbacks)
    /\ call.url.hostname \in {"ip", "name"}
    /\ \/ call.url.hostname = "ip" /\ call.url.ip \in {"public"}
       \/ call.url.hostname = "name" /\ call.dns \in {"public"}

\* a parse error, or an error of the resolution
C12_Error ==
    \/ ~call.url.parses
    \/ call.url.hostname = "name" /\ call.dns = "gaierror"

\* C12 as stated: is_safe_url returns true exactly when the bypass flag is
\* set or all the listed conditions hold, and any parse or resolution error
\* yields false.
C12_Original ==
    IsSafeUrlReturned =>
        /\ call.result[1] <=> (call.allow_private_ips \/ C12_AllOf)
        /\ C12_Error => ~call.result[1]

\* C12 as amended: is_safe_url returns true exactly when the bypass flag is
\* set or all the listed conditions hold; with the bypass flag off, any parse
\* or resolution error yields false.
C12_SafeExactlyWhen ==
    IsSafeUrlReturned =>
        /\ call.result[1] <=> (call.allow_private_ips \/ C12_AllOf)
        /\ (C12_Error /\ ~call.allow_private_ips) => ~call.result[1]

\* an http URL of a public host was accepted because ALLOW_HTTP_CALLBACKS is
\* set, the bypass being off
C12_Witness ==
    /\ IsSafeUrlReturned
    /\ ~call.allow_private_ips /\ call.allow_http_callbacks
    /\ call.url.scheme = "http" /\ call.url.hostname = "name" /\ call.dns = "public"
    /\ call.result[1]

\* is_safe_url rejects the URL, with the settings of the deployment
Rejected(url, dns) == ~is_safe_url(url, dns, ALLOW_PRIVATE_IPS, ALLOW_HTTP_CALLBACKS)

\* C11: with ALLOW_PRIVATE_IPS off, no PUT and no POST is sent to a loopback,
\* link-local or private address, on any attempt; and when the check rejects
\* the URL no request is sent: the upload raises (the job goes to failed
\* without a PUT), the webhook returns and the task ends.
C11_NoPrivateRequests ==
    [][\A m \in Msgs :
        /\ \A addr \in Resolutions, outcome \in {"ok", "retryable", "other"} :
            (UploadRequest(m, outcome, addr) \/ WebhookRequest(m, outcome, addr))
                => addr \notin Blocked
        /\ \A url \in TaskUrls, dns \in Resolutions :
            /\ (RenameAndCheck(m, url, dns) /\ Rejected(url, dns))
                    => /\ task'[m].pc = "fin_expire" /\ task'[m].fstatus = "failed"
                       /\ task'[m].puts = 0
            /\ (WebhookCheckUrl(m, url, dns) /\ Rejected(url, dns))
                    => /\ task'[m].pc = "acked"
                       /\ task'[m].wh = "webhook_blocked_insecure_url"]_vars

Active == {"queued", "processing", "uploading"}

\* C13: the reaper removes a job directory only if, at the moment of the
\* removal, the directory's age exceeds TEMP_FILE_TTL_SECONDS and the job's
\* record is absent or completed or failed; the directory of a queued,
\* processing or uploading job is never removed by it.
C13_ReapsOnlyTerminal ==
    [][(ReapRemove /\ fs[reaper].exists) =>
        /\ fs[reaper].aged
        /\ ~Exists(store[reaper]) \/ store[reaper].status \in Terminal
        /\ store[reaper].status \notin Active]_vars

\* C14: every job whose record is queued, processing or uploading has its
\* job directory with its input file on disk; and the directory of a job
\* that has a record disappears only by being reaped.
C14_ActiveJobHasDirectory ==
    /\ [](\A j \in JobIds :
            store[j].status \in Active
                => fs[j].exists /\ GlobInput(fs[j].files) # {})
    /\ [][\A j \in JobIds :
            (Exists(store[j]) /\ fs[j].exists /\ ~fs'[j].exists) => ReapRemove]_vars

\* the step in which submission r, its job directory created, is answered
\* with an error
FailsAfterDir(r) ==
    /\ req[r].pc \in {"stream", "create", "enqueue"}
    /\ req'[r].pc = "done"
    /\ req'[r].resp.code \in {413, 500}

\* C15: any failure of POST /jobs after the job directory was created (while
\* streaming the file, in create_job, or while enqueueing the task) removes
\* the job directory before the error response is returned.
C15_FailurePurgesDirectory ==
    [][\A r \in Reqs : FailsAfterDir(r) => ~fs'[req[r].job_id].exists]_vars

\* C16: when the streamed size of an upload exceeds MAX_UPLOAD_SIZE_MB, the
\* submission is answered 413 and afterwards the job directory does not
\* exist, no record of the job id exists in the store, and no task was
\* enqueued for it.
C16_TooLargeLeavesNothing ==
    [][\A r \in Reqs :
        (req[r].pc = "stream" /\ req'[r].pc = "done" /\ req'[r].resp.code = 413)
            => /\ ~fs'[req[r].job_id].exists
               /\ ~Exists(store'[req[r].job_id])
               /\ \A m \in Msgs : JobOf(m) = req[r].job_id => task'[m].pc = "none"]_vars

\* the step in which a PUT fails (non-2xx response or transport error) and
\* upload_output_wav's retry loop ends
UploadGivesUp(m) ==
    /\ \E addr \in Resolutions : UploadRequest(m, "retryable", addr)
    /\ task'[m].pc # "upload"

\* C17: when every PUT fails, exactly UPLOAD_MAX_RETRIES (3) PUTs are made
\* and the error reaches the runner: finish_job is called with failed and a
\* non-empty error, never with completed, no task-level retry is queued and
\* the transcoder is not run again; and finish_job writes that status and
\* error to the record.
C17_UploadExhaustionFails ==
    [][\A m \in Msgs :
        /\ UploadGivesUp(m)
            => /\ task'[m].puts = 3
               /\ task'[m].pc = "fin_expire"
               /\ task'[m].fstatus = "failed" /\ task'[m].ferror # ""
               /\ \A m2 \in Msgs \ {m} : task'[m2] = task[m2]
        /\ (FinHset(m) /\ task[m].fstatus = "failed")
            => /\ store'[JobOf(m)].status = "failed"
               /\ store'[JobOf(m)].error = task[m].ferror]_vars

\* three PUTs failed, and the job was recorded as failed with the error
C17_Witness ==
    \E m \in Msgs :
        /\ task[m].pc = "wh_check" /\ task[m].puts = UPLOAD_MAX_RETRIES
        /\ ~task[m].soft /\ m[2] = 0
        /\ task[m].fstatus = "failed"
        /\ store[JobOf(m)].status = "failed"
        /\ store[JobOf(m)].error = MsgUnexpected

\* C18: when the probe finds no audio stream, finish_job is called at once
\* with failed and the error naming the missing audio track, and no
\* task-level retry is queued; the execution that carries that error has not
\* started the transcoder and has made no PUT; finish_job writes failed and
\* that error to the record, and the webhook, if one is sent, carries them.
C18_NoAudioFailsAtOnce ==
    /\ [][\A m \in Msgs :
            /\ ProbeOutcome(m, "NoAudioTrackError")
                => /\ task'[m].pc = "fin_expire"
                   /\ task'[m].fstatus = "failed" /\ task'[m].ferror = MsgNoAudio
                   /\ \A m2 \in Msgs \ {m} : task'[m2] = task[m2]
            /\ (FinHset(m) /\ task[m].ferror = MsgNoAudio)
                => /\ store'[JobOf(m)].status = "failed"
                   /\ store'[JobOf(m)].error = MsgNoAudio
            /\ \A addr \in Resolutions, outcome \in {"ok", "retryable"} :
                (WebhookRequest(m, outcome, addr) /\ task[m].ferror = MsgNoAudio)
                    => Payload(task[m]) = [status |-> "failed", error |-> MsgNoAudio]]_vars
    /\ [](\A m \in Msgs :
            task[m].ferror = MsgNoAudio
                => /\ task[m].pc \in FinishPcs
                   /\ ~task[m].ran /\ task[m].puts = 0)

\* the webhook of a job without audio track was delivered after the record
\* was marked failed with that error
C18_Witness ==
    \E m \in Msgs :
        /\ task[m].pc = "acked" /\ task[m].wh = "webhook_delivered"
        /\ m[2] = 0 /\ budget = OneFailures
        /\ store[JobOf(m)].status = "failed"
        /\ store[JobOf(m)].error = MsgNoAudio

\* C19: no exception escapes the runner: whatever error is raised at a step
\* of convert_video, the initial status update and the status write of
\* finish_job included, no execution ends by raising it.
C19_NoExceptionEscapes ==
    \A m \in Msgs : task[m].pc # "raised"

\* retry_with_backoff has slept
HasSlept == call.fn = "retry_with_backoff" /\ call.slept # <<>>

\* base_delay * 2^k, in the units of the floats
C20_Lower == call.base_delay * (2 ^ call.slept[1]) * (2 ^ MantissaBits)

C21_BootLeavesEmptyRoot ==
    (call.fn = "boot_cleanup" /\ call.pc = "done") =>
        call.exists /\ call.children = {}

\* ffprobe or ffmpeg fails in the execution of m: validate_audio_track or
\* convert_video raises FFmpegError (ProbeFailed, TranscodeFailed, InvalidOutput)
FFmpegFailure(m) ==
    ProbeOutcome(m, "FFmpegError") \/ TranscodeOutcome(m, "FFmpegError")

\* an unexpected error inside the try block: upload_output_wav raises
\* ValueError on an output_url that is_safe_url rejects
UnexpectedError(m) ==
    \E output_url \in TaskUrls : \E dns \in Lookups(output_url) :
        /\ RenameAndCheck(m, output_url, dns)
        /\ OutputMp3 \in fs[JobOf(m)].files
        /\ ~is_safe_url(output_url, dns, ALLOW_PRIVATE_IPS, ALLOW_HTTP_CALLBACKS)

\* the execution of m is retried, the job's record left as it is and not
\* terminal, while m is not the 3rd retry; the 3rd retry calls
\* finish_job(failed) with the reason "FFmpeg failed after retries"
RetriedUpToThreeTimes(m) ==
    IF m[2] < 3
    THEN /\ task'[m].pc = "retried"
         /\ task'[<<m[1], m[2] + 1>>].pc = "queued"
         /\ store' = store
         /\ store[JobOf(m)].status \notin Terminal
    ELSE /\ task'[m].pc = "fin_expire"
         /\ task'[m].fstatus = "failed"
         /\ task'[m].ferror = MsgFfmpegRetries

StageRank(pc) ==
    CASE pc = "start" -> 0
      [] pc = "probe" -> 1
      [] pc = "transcode" -> 2
      [] pc = "set_uploading" -> 3
      [] pc = "rename" -> 4
      [] pc = "upload" -> 5
      [] OTHER -> 6

\* C23 as stated: once ffmpeg has been started for the job (the probe has
\* succeeded: ffmpeg.log is there), no retry of the task executes the probe again
C23_Original ==
    [][\A m \in Msgs :
        (m[2] > 0 /\ task[m].pc = "probe" /\ FfmpegLog \in fs[JobOf(m)].files) =>
            ~Probe(m)]_vars

\* C23: within one execution the stages run strictly forward, only an upload
\* attempt and the steps of finish_job following one another at the same
\* stage; a task-level retry does not resume at the stage that failed: it
\* sends the task again, and the new execution starts at the beginning
C23_ForwardWithinExecution ==
    [][\A m \in Msgs :
        /\ (task[m].pc \in RunningPcs /\ task'[m].pc \in RunningPcs /\ task'[m] # task[m]) =>
            \/ StageRank(task'[m].pc) > StageRank(task[m].pc)
            \/ /\ StageRank(task'[m].pc) = StageRank(task[m].pc)
               /\ task[m].pc \in {"upload"} \cup FinishPcs
        /\ (task[m].pc = "queued" /\ task'[m].pc # "queued") => task'[m].pc = "start"
        /\ (FFmpegFailure(m) /\ m[2] < max_retries) =>
            /\ task'[m].pc = "retried"
            /\ task'[<<m[1], m[2] + 1>>] = QueuedTask]_vars

\* the first retry has passed the probe again, which had already succeeded
\* in the execution that started ffmpeg
C23_Witness ==
    \E r \in Reqs :
        /\ task[<<r, 0>>].pc = "retried"
        /\ task[<<r, 1>>].pc = "transcode"
        /\ FfmpegLog \in fs[req[r].job_id].files

\* C24: with at least one attempt allowed, retry_with_backoff ends a run of
\* retryable failures by raising after exactly max_retries calls of func();
\* it returns at the first call that succeeds, and it raises at the first
\* exception outside the retryable set; after either there is no further call
C24_CallsExactlyMaxRetries ==
    (call.fn = "retry_with_backoff" /\ call.max_retries >= 1) =>
        /\ call.pc = "loop" =>
            /\ call.calls = call.attempt
            /\ call.calls < call.max_retries
            /\ call.last \in {"", "retryable"}
        /\ call.pc # "loop" =>
            /\ call.calls = call.attempt + 1
            /\ call.last = "retryable" => call.pc = "raise" /\ call.calls = call.max_retries
            /\ call.last = "ok" => call.pc = "return"
            /\ call.last = "other" => call.pc = "raise"

\* the webhook's five attempts have all failed with a retryable error and the
\* fifth error is raised
C24_Witness ==
    /\ call.fn = "retry_with_backoff"
    /\ call.max_retries = WEBHOOK_MAX_RETRIES
    /\ call.pc = "raise" /\ call.last = "retryable"
    /\ call.calls = WEBHOOK_MAX_RETRIES

\* C25: when SoftTimeLimitExceeded is raised in the execution of m, the task
\* calls finish_job(failed) with the timeout reason and is not retried; when
\* the job's status is already terminal, no finish_job replaces it
C25_SoftLimitFailsJob ==
    [][\A m \in Msgs : SoftLimit(m) =>
        /\ task'[m].pc # "retried"
        /\ IF store[JobOf(m)].status \in Terminal
           THEN task'[m].pc # "fin_expire"
           ELSE /\ task'[m].pc = "fin_expire"
                /\ task'[m].fstatus = "failed"
                /\ task'[m].ferror = MsgTimeout]_vars

\* C26: when convert_video has ended, the child it spawned is not running;
\* when it ended with the cancellation error, a child that was running at
\* the cancellation was sent the termination signal and has exited
C26_ChildNeverOutlivesDriver ==
    (call.fn = "convert_video" /\ call.pc = "done") =>
        /\ call.child = "exited"
        /\ call.result = "CancelledError" =>
            (call.terminated <=> call.returncode = <<255>>)

\* C27: when convert_video has tested the exit code and the output, it
\* returns normally exactly when the child exited with 0 and the output has
\* data; it raises the transcode failure exactly when the exit code is not 0,
\* whatever the output; and the invalid-output failure exactly when the exit
\* code is 0 and the output is missing or empty
C27_SuccessNeedsExitZeroAndOutput ==
    (call.fn = "convert_video" /\ call.pc = "done"
        /\ call.result \in {"ok", "TranscodeFailed", "InvalidOutput"}) =>
        /\ call.child = "exited"
        /\ call.result = "ok" <=> (call.returncode = <<0>> /\ call.output = "data")
        /\ call.result = "TranscodeFailed" <=> call.returncode # <<0>>
        /\ call.result = "InvalidOutput" <=>
            (call.returncode = <<0>> /\ call.output \in {"missing", "empty"})

\* the child exited with 1 and left no output: the failure raised is the
\* transcode failure, not the invalid output
C27_Witness ==
    /\ call.fn = "convert_video" /\ call.pc = "done"
    /\ call.returncode = <<1>> /\ call.output = "missing"
    /\ call.result = "TranscodeFailed"

\* stdout has at least one line with a stream index
HasIndexLine(stdout) == \E i \in 1..Len(stdout) : stdout[i] \in {"0", "1"}

\* C28: validate_audio_track raises the retryable FFmpegError exactly when
\* ffprobe exits non-zero, whatever stdout holds; NoAudioTrackError exactly
\* when ffprobe exits 0 and stdout is empty or only whitespace; and returns
\* normally exactly when ffprobe exits 0 and stdout has a stream index line
C28_ProbeClassification ==
    (call.fn = "validate_audio_track" /\ call.result # <<>>) =>
        /\ call.result = <<"FFmpegError">> <=> call.returncode # 0
        /\ call.result = <<"NoAudioTrackError">> <=>
            (call.returncode = 0 /\ ~HasIndexLine(call.stdout))
        /\ call.result = <<"ok">> <=>
            (call.returncode = 0 /\ HasIndexLine(call.stdout))

\* ffprobe exited with 1 and printed nothing: the retryable failure
C28_Witness ==
    /\ call.fn = "validate_audio_track"
    /\ call.returncode = 1 /\ call.stdout = <<>>
    /\ call.result = <<"FFmpegError">>

\* C29: for every setting of UPLOAD_MAX_RETRIES, 0 included, the job's status
\* becomes completed only after a PUT of the artifact got a 2xx response
C29_CompletedOnlyAfterAcceptedPut ==
    (call.fn = "upload_output_wav" /\ call.status = "completed") =>
        call.accepted /\ call.puts >= 1

\* C30: whenever the runner is about to locate its input, exactly one file of
\* the job directory matches input.*, and it is the file the ingress stored,
\* still holding the upload
C30_ExactlyOneInput ==
    (call.fn = "input_file" /\ call.pc = "locate") =>
        /\ GlobInput(DOMAIN call.dir) = {StoredInput(call.filename)}
        /\ call.dir[StoredInput(call.filename)] = "upload"

====
